---- MODULE Spec2Model ----
(***************************************************************************)
(* Performance Observatory (Next.js App Router rendering patterns demo).   *)
(*                                                                         *)
(* The model covers the server side of the demo: the SSR page               *)
(* (app/ssr-standard/page.tsx, fetch with cache: 'no-store'), the RSC page  *)
(* (app/rsc-optimal/page.tsx, fetch with next: {revalidate: 60, tags:       *)
(* ['products']} behind Suspense boundaries), the data cache those fetch    *)
(* options address, the on-demand revalidation route of the documentation  *)
(* (POST /api/revalidate) and the products route (POST /api/products).      *)
(*                                                                         *)
(* Time is in seconds.  A fetch is one step to issue it and one step to     *)
(* settle it; the continuation that awaits it (getProducts' try/catch, the  *)
(* component's return) runs in the settling step, as JavaScript runs a      *)
(* resolved promise's continuation to completion.                          *)
(***************************************************************************)
EXTENDS Integers, Sequences, FiniteSets, Bags, TLC

\* ------------------------------------------------------------------ bounds
\* Render slots that may be in progress at the same time.
MaxRenders == 2
\* fetch() calls that may be in flight at the same time.
MaxFetches == 3
\* The clock stops advancing here.
MaxTime == 120
\* The clock advances in steps of this many seconds.
TickSeconds == 60

\* The largest limit and offset parameters GET /api/products is tried with.
MaxLimit == 4
MaxOffset == 9
\* GET requests one client may make in a row.
MaxRequests == 10
MaxMounts == 2

\* ------------------------------------------------- constants of the program
\* parseInt(searchParams.get('limit') || '20'), (... 'offset') || '0').
DefaultLimit == 20
DefaultOffset == 0
\* next: { revalidate: 60 } of the product list.
RevalidateProducts == 60
\* next: { revalidate: 300 } of the recommendations.
RevalidateRecommendations == 300

ProductsUrl == "/api/products"
RecommendationsUrl == "/api/recommendations"
Urls == {ProductsUrl, RecommendationsUrl}

\* The tags a revalidation request may name.
TagNames == {"products", "product-123"}
\* The paths a revalidation request may name.
PathNames == {"/rsc-optimal", "/ssr-standard"}

Renders == 1..MaxRenders

\* --------------------------------------------------------- fetch options
NoStore == [cache |-> "no-store", revalidate |-> 0, tags |-> {}]

\* The options getProducts of the SSR page passes to fetch.
SsrProductsOptionsCached == [cache |-> "default", revalidate |-> RevalidateProducts,
                             tags |-> {"products"}]

SsrProductsOptions == NoStore

\* The options getProducts of the RSC page passes to fetch.
RscProductsOptions == [cache |-> "default", revalidate |-> RevalidateProducts,
                       tags |-> {"products"}]

\* The options getRecommendations passes to fetch.
RecommendationsOptions == [cache |-> "default",
                           revalidate |-> RevalidateRecommendations, tags |-> {}]

\* ------------------------------------------------------------ the pages
\* The data fetches of a page, in the order of its JSX: the SSR page awaits
\* one getProducts(); the RSC page has one Suspense boundary per fetch.
SSRStandardPage == << [url |-> ProductsUrl, opts |-> SsrProductsOptions] >>

RSCOptimalPage == << [url |-> ProductsUrl, opts |-> RscProductsOptions],
                     [url |-> RecommendationsUrl, opts |-> RecommendationsOptions] >>

Page(kind) == IF kind = "ssr" THEN SSRStandardPage ELSE RSCOptimalPage

PathOf(kind) == IF kind = "ssr" THEN "/ssr-standard" ELSE "/rsc-optimal"

\* What a slot shows before its data arrived: the SSR page has sent nothing
\* (it awaits getProducts before it returns), a Suspense boundary shows its
\* fallback.
Pending(kind) == IF kind = "ssr" THEN "blank" ELSE "fallback"

VARIABLES
    now,        \* the clock, in seconds
    cache,      \* the data cache: url -> entry, or NoEntry
    renders,    \* render slot -> the render in progress, or IdleRender
    inflight,   \* the fetch() calls in flight, a bag of requests
    response,   \* the last answer of an API route (POST /api/revalidate,
                \* POST /api/products)
    evicted,    \* how many entries the last API request dropped
    overtaken,  \* history: the requests in flight whose entry a revalidation
                \* dropped after they were issued
    mockProducts,   \* the catalogue of the products route
    client,     \* a client of GET /api/products: its last query, the answer
                \* and the pages it has gathered
    page,       \* the last server page built from a response of the route
    csr         \* the CSR page in the browser

vars == << now, cache, renders, inflight, response, evicted, overtaken,
           mockProducts, client, page, csr >>

\* What the pages and the cache never touch.
siteVars == << mockProducts, client, page, csr >>

\* The catalogue as the module defines it: ids '1' to '8' in this order.
\* Name, price, description and inStock play no part in the route and are
\* left out.
InitialProducts ==
    << [id |-> "1", category |-> "Electronics"],
       [id |-> "2", category |-> "Electronics"],
       [id |-> "3", category |-> "Electronics"],
       [id |-> "4", category |-> "Electronics"],
       [id |-> "5", category |-> "Accessories"],
       [id |-> "6", category |-> "Accessories"],
       [id |-> "7", category |-> "Gaming"],
       [id |-> "8", category |-> "Electronics"] >>

NoClient == [requests |-> 0]
NoPage == [kind |-> "none"]
Unmounted == [mounted |-> FALSE, instance |-> 0]

NoEntry == [state |-> "none"]
IdleRender == [phase |-> "idle"]
NoResponse == [status |-> 0]

\* ------------------------------------------------------- the data cache
\* The read fetch() makes before it goes to the network.  cache: 'no-store'
\* bypasses the cache; otherwise an entry older than the call's revalidate
\* seconds is stale.  Nothing sweeps the cache: age is computed here.
cacheGetNeverStale(url, opts, t) ==
    IF opts.cache = "no-store" THEN "NoCache"
    ELSE IF cache[url] = NoEntry THEN "Miss"
    ELSE "Fresh"

cacheGet(url, opts, t) ==
    IF opts.cache = "no-store" THEN "NoCache"
    ELSE IF cache[url] = NoEntry THEN "Miss"
    ELSE IF t - cache[url].storedAt > opts.revalidate THEN "Stale"
    ELSE "Fresh"

\* The write fetch() makes when a cacheable request came back ok.
cachePut(c, url, opts, path, t) ==
    [c EXCEPT ![url] = [state |-> "stored", storedAt |-> t,
                        tags |-> opts.tags, path |-> path]]

\* revalidateTag(tag): every entry carrying the tag is dropped.
revalidateTagAll(c, tag) ==
    [u \in Urls |-> NoEntry]

\* A filter that lets entries without tags through would drop them on every
\* revalidation.
revalidateTagUntagged(c, tag) ==
    [u \in Urls |-> IF c[u] # NoEntry /\ (c[u].tags = {} \/ tag \in c[u].tags)
                    THEN NoEntry ELSE c[u]]

revalidateTag(c, tag) ==
    [u \in Urls |-> IF c[u] # NoEntry /\ tag \in c[u].tags THEN NoEntry ELSE c[u]]

\* revalidatePath(path): every entry fetched while rendering the path is dropped.
revalidatePath(c, path) ==
    [u \in Urls |-> IF c[u] # NoEntry /\ c[u].path = path THEN NoEntry ELSE c[u]]

\* ------------------------------------------------------------- fetches
\* fetch() goes to the network: one more request is in flight.  A
\* coalescing fetch would attach to a request for the same url instead.
IssueCoalescing(fl, rec) ==
    IF \E q \in BagToSet(fl) : q.url = rec.url THEN fl ELSE fl (+) SetToBag({rec})

Issue(fl, rec) == fl (+) SetToBag({rec})

\* A request in flight: r = 0 marks the background revalidation of a stale
\* entry, which no render awaits.
Request(url, opts, r, i, path) ==
    [url |-> url, opts |-> opts, r |-> r, i |-> i, path |-> path]

\* ------------------------------------------------------------- renders
PendingSlot(kind, i) ==
    [frag |-> i, view |-> Pending(kind), src |-> "none"]

\* ProductList's grid: the products, read from the cache or just fetched.
ContentSlot(i, src) ==
    [frag |-> i, view |-> "content", src |-> src]

\* getProducts caught the failure and returned []: the component renders its
\* notice box instead of the grid.
ErrorSlot(i) ==
    [frag |-> i, view |-> "error", src |-> "none"]

Resolved(slot) == slot.view \in {"content", "error"}

ContentEvent(slot) ==
    [frag |-> slot.frag, kind |-> IF slot.view = "error" THEN "error" ELSE "ready"]

CompleteEvent == [frag |-> 0, kind |-> "complete"]

\* The outcome of the cache read of fragment i of a page rendered at time t.
Observe(kind, i, t) ==
    LET d == Page(kind)[i]
    IN  cacheGet(d.url, d.opts, t)

\* Fragment i as the page starts: a cache hit is there at once, fresh or
\* stale; anything else waits for the network.
StartSlotBlocksOnStale(kind, i, t) ==
    LET d == Page(kind)[i]
    IN  IF cacheGet(d.url, d.opts, t) = "Fresh"
        THEN ContentSlot(i, "cache")
        ELSE PendingSlot(kind, i)

StartSlot(kind, i, t) ==
    LET d == Page(kind)[i]
    IN  IF cacheGet(d.url, d.opts, t) \in {"Fresh", "Stale"}
        THEN ContentSlot(i, "cache")
        ELSE PendingSlot(kind, i)

\* The request fragment i issues as the page starts: awaited by the render
\* on a miss or with no-store, in the background on a stale hit.
StartRequest(kind, r, i, t) ==
    LET d == Page(kind)[i]
        o == cacheGet(d.url, d.opts, t)
    IN  Request(d.url, d.opts, IF o = "Stale" THEN 0 ELSE r, i, PathOf(kind))

\* All fetches of the page are issued as it starts, in the order of its JSX.
\* A page that awaited each fetch before the next would issue only the first.
RECURSIVE IssueAllWaterfall(_, _, _, _, _)
IssueAllWaterfall(fl, kind, r, i, t) ==
    IF i > Len(Page(kind)) THEN fl
    ELSE LET d == Page(kind)[i]
         IN  IF cacheGet(d.url, d.opts, t) = "Fresh"
             THEN IssueAllWaterfall(fl, kind, r, i + 1, t)
             ELSE Issue(fl, StartRequest(kind, r, i, t))

RECURSIVE IssueAll(_, _, _, _, _)
IssueAll(fl, kind, r, i, t) ==
    IF i > Len(Page(kind)) THEN fl
    ELSE LET d == Page(kind)[i]
         IN  IF cacheGet(d.url, d.opts, t) = "Fresh"
             THEN IssueAll(fl, kind, r, i + 1, t)
             ELSE IssueAll(Issue(fl, StartRequest(kind, r, i, t)), kind, r, i + 1, t)

RECURSIVE EventsOf(_, _)
EventsOf(slots, i) ==
    IF i > Len(slots) THEN << >>
    ELSE (IF Resolved(slots[i]) THEN << ContentEvent(slots[i]) >> ELSE << >>)
         \o EventsOf(slots, i + 1)

\* The page's stream ends once no boundary is pending.
AllResolved(slots) == \A i \in 1..Len(slots) : Resolved(slots[i])

\* What the awaiting component renders once its fetch settled: the grid
\* when the response was ok, the notice when getProducts' catch returned [].
Settled(i, outcome, t) ==
    IF outcome = "ok" THEN ContentSlot(i, "network") ELSE ErrorSlot(i)

\* The boundary of fragment i swaps its fallback for the settled content.
DeliverFirstPending(rd, i, slot) ==
    LET j == CHOOSE x \in 1..Len(rd.slots) :
                 /\ ~Resolved(rd.slots[x])
                 /\ \A y \in 1..Len(rd.slots) : ~Resolved(rd.slots[y]) => x <= y
    IN  [rd EXCEPT !.slots[j] = slot, !.stream = Append(@, ContentEvent(slot))]

\* A boundary that suspended again would put the fallback back in the slots
\* already shown.
DeliverResuspends(rd, i, slot) ==
    [rd EXCEPT !.slots = [j \in 1..Len(rd.slots) |->
                            IF j = i THEN slot ELSE PendingSlot(rd.kind, j)],
               !.stream = Append(@, ContentEvent(slot))]

Deliver(rd, i, slot) ==
    [rd EXCEPT !.slots[i] = slot, !.stream = Append(@, ContentEvent(slot))]

\* A failed fetch under Promise.all would take the sibling fetches with it.
SettleRenderAbortsSiblings(rd, i, outcome, t) ==
    IF outcome = "ok" THEN Deliver(rd, i, Settled(i, outcome, t))
    ELSE [rd EXCEPT
            !.slots = [j \in 1..Len(rd.slots) |->
                         IF Resolved(rd.slots[j]) THEN rd.slots[j] ELSE ErrorSlot(j)],
            !.stream = @ \o << ContentEvent(ErrorSlot(i)) >>]

\* Without getProducts' catch the component never returns.
SettleRenderHangsOnFailure(rd, i, outcome, t) ==
    IF outcome = "ok" THEN Deliver(rd, i, Settled(i, outcome, t)) ELSE rd

SettleRender(rd, i, outcome, t) == Deliver(rd, i, Settled(i, outcome, t))

\* Only an ok response of a cacheable request is written to the cache.
\* A store that tracked revalidations would drop the response of a request
\* issued before its entry was revalidated.
SettleCacheSkipsOvertaken(c, q, outcome, t) ==
    IF outcome = "ok" /\ q.opts.cache # "no-store" /\ q \notin overtaken
    THEN cachePut(c, q.url, q.opts, q.path, t)
    ELSE c

\* A store that treated a failed refresh as an invalidation would drop the
\* entry.
SettleCacheEvictsOnFailure(c, q, outcome, t) ==
    IF q.opts.cache = "no-store" THEN c
    ELSE IF outcome = "ok" THEN cachePut(c, q.url, q.opts, q.path, t)
    ELSE [c EXCEPT ![q.url] = NoEntry]

SettleCache(c, q, outcome, t) ==
    IF outcome = "ok" /\ q.opts.cache # "no-store"
    THEN cachePut(c, q.url, q.opts, q.path, t)
    ELSE c

\* The settled request leaves the requests in flight: getProducts' catch
\* returns [] and issues nothing.  A retrying fetcher would keep a failed
\* request in flight.
SettleInflightRetries(fl, q, outcome) ==
    IF outcome = "ok" THEN fl (-) SetToBag({q}) ELSE fl

SettleInflight(fl, q, outcome) == fl (-) SetToBag({q})

Outcomes == {"ok", "notok", "reject"}

\* ------------------------------------------------------------- actions
Init ==
    /\ now = 0
    /\ cache = [u \in Urls |-> NoEntry]
    /\ renders = [r \in Renders |-> IdleRender]
    /\ inflight = EmptyBag
    /\ response = NoResponse
    /\ evicted = 0
    /\ overtaken = {}
    /\ mockProducts = InitialProducts
    /\ client = NoClient
    /\ page = NoPage
    /\ csr = Unmounted

\* A request for a page arrives: the page function runs up to its awaits.
StartRender(r, kind) ==
    /\ renders[r] = IdleRender
    /\ BagCardinality(inflight) + Len(Page(kind)) <= MaxFetches
    /\ LET n == Len(Page(kind))
           slots == [i \in 1..n |-> StartSlot(kind, i, now)]
       IN  renders' = [renders EXCEPT ![r] =
                         [phase |-> "rendering", kind |-> kind,
                          slots |-> slots, stream |-> EventsOf(slots, 1),
                          obs |-> [i \in 1..n |-> Observe(kind, i, now)]]]
    /\ inflight' = IssueAll(inflight, kind, r, 1, now)
    /\ UNCHANGED << now, cache, response, evicted, overtaken >>
    /\ UNCHANGED siteVars

\* A fetch settles: ok, with a status that is not ok, or rejected.
FetchSettle(q, outcome) ==
    /\ BagIn(q, inflight)
    /\ inflight' = SettleInflight(inflight, q, outcome)
    /\ cache' = SettleCache(cache, q, outcome, now)
    /\ renders' = IF q.r = 0 THEN renders
                  ELSE [renders EXCEPT ![q.r] = SettleRender(@, q.i, outcome, now)]
    /\ overtaken' = {x \in overtaken : BagIn(x, inflight')}
    /\ UNCHANGED << now, response, evicted >>
    /\ UNCHANGED siteVars

\* Every boundary has its content: the response stream ends.
CompleteRender(r) ==
    /\ renders[r].phase = "rendering"
    /\ AllResolved(renders[r].slots)
    /\ renders' = [renders EXCEPT ![r] =
                     [@ EXCEPT !.phase = "complete",
                               !.stream = Append(@, CompleteEvent)]]
    /\ UNCHANGED << now, cache, inflight, response, evicted, overtaken >>
    /\ UNCHANGED siteVars

\* The response has been sent.
CloseRender(r) ==
    /\ renders[r].phase = "complete"
    /\ renders' = [renders EXCEPT ![r] = IdleRender]
    /\ UNCHANGED << now, cache, inflight, response, evicted, overtaken >>
    /\ UNCHANGED siteVars

Tick ==
    /\ now + TickSeconds <= MaxTime
    /\ now' = now + TickSeconds
    /\ UNCHANGED << cache, renders, inflight, response, evicted, overtaken >>
    /\ UNCHANGED siteVars

Count(c) == Cardinality({u \in Urls : c[u] # NoEntry})

\* POST /api/revalidate.  The answer's now: Date.now() is left out.
Revalidate(secretOk, type, id, path, throws) ==
    /\ IF ~secretOk
       THEN /\ response' = [status |-> 401, message |-> "Invalid secret"]
            /\ cache' = cache
       ELSE IF throws /\ type \in {"tag", "path"}
       THEN /\ response' = [status |-> 500, message |-> "Error revalidating"]
            /\ cache' = cache
       ELSE IF type = "tag"
       THEN /\ cache' = revalidateTag(cache, id)
            /\ response' = [status |-> 200, revalidated |-> TRUE, tag |-> id]
       ELSE IF type = "path"
       THEN /\ cache' = revalidatePath(cache, path)
            /\ response' = [status |-> 200, revalidated |-> TRUE, path |-> path]
       ELSE /\ response' = [status |-> 400, message |-> "Invalid type"]
            /\ cache' = cache
    /\ evicted' = Count(cache) - Count(cache')
    /\ overtaken' = overtaken \cup {q \in BagToSet(inflight) :
                                       /\ q.opts.cache # "no-store"
                                       /\ cache[q.url] # NoEntry
                                       /\ cache'[q.url] = NoEntry}
    /\ UNCHANGED << now, renders, inflight >>
    /\ UNCHANGED siteVars

\* The request bodies and headers POST /api/revalidate is tried with.
RevalidateRequests ==
    {[secretOk |-> FALSE, type |-> "tag", id |-> "products", path |-> "/rsc-optimal",
      throws |-> FALSE],
     [secretOk |-> TRUE, type |-> "other", id |-> "products", path |-> "/rsc-optimal",
      throws |-> FALSE]}
    \cup [secretOk : {TRUE}, type : {"tag"}, id : TagNames, path : {"/rsc-optimal"},
          throws : BOOLEAN]
    \cup [secretOk : {TRUE}, type : {"path"}, id : {"products"}, path : PathNames,
          throws : BOOLEAN]

\* ------------------------------------------------- POST /api/products
\* A field of a JSON body: has is FALSE when the body does not carry it.
Field(has, val) == [has |-> has, val |-> val]

\* !body.name and !body.price: an absent field, "" and 0 all count as not
\* given.
Falsy(f, zero) == ~f.has \/ f.val = zero

\* body.x || dflt and body.x ?? dflt.
OrElse(f, zero, dflt) == IF Falsy(f, zero) THEN dflt ELSE f.val
Coalesce(f, dflt) == IF f.has THEN f.val ELSE dflt

\* The handler: the authorization header is not read.  json is "invalid"
\* when request.json() rejects, "null" when the body is the JSON null (the
\* read of body.name then throws), "object" otherwise.  The answer's id and
\* createdAt (Date.now()) are left out.
POST(request) ==
    IF request.json # "object"
    THEN [status |-> 400, error |-> "Invalid request body"]
    ELSE IF Falsy(request.body.name, "") \/ Falsy(request.body.price, 0)
    THEN [status |-> 400, error |-> "Missing required fields: name, price"]
    ELSE [status |-> 201,
          product |-> [name |-> request.body.name.val,
                       price |-> request.body.price.val,
                       category |-> OrElse(request.body.category, "", "Uncategorized"),
                       description |-> OrElse(request.body.description, "", ""),
                       inStock |-> Coalesce(request.body.inStock, TRUE)]]

\* The mock creates nothing: mockProducts and the cache are as they were.
\* A handler that saved the product would push it to the catalogue.
PostProductsAppends(request) ==
    /\ response' = POST(request)
    /\ evicted' = 0
    /\ mockProducts' = IF POST(request).status = 201
                       THEN Append(mockProducts,
                                   [id |-> "9", category |-> POST(request).product.category])
                       ELSE mockProducts
    /\ UNCHANGED << now, cache, renders, inflight, overtaken, client, page, csr >>

PostProducts(request) ==
    /\ response' = POST(request)
    /\ evicted' = 0
    /\ UNCHANGED << now, cache, renders, inflight, overtaken >>
    /\ UNCHANGED siteVars

Body(name, price) ==
    [name |-> name, price |-> price, category |-> Field(FALSE, ""),
     description |-> Field(FALSE, ""), inStock |-> Field(FALSE, FALSE)]

\* The requests POST /api/products is tried with: with and without an
\* authorization header; a body that does not parse, null, {}, a product
\* with price 0 and a product with a price.
PostRequests ==
    [authorization : BOOLEAN, json : {"invalid", "null"},
     body : {Body(Field(FALSE, ""), Field(FALSE, 0))}]
    \cup [authorization : BOOLEAN, json : {"object"},
          body : {Body(Field(FALSE, ""), Field(FALSE, 0)),
                  Body(Field(TRUE, "Widget"), Field(TRUE, 0)),
                  Body(Field(TRUE, "Widget"), Field(TRUE, 1200))}]

Next ==
    \/ \E r \in Renders, kind \in {"ssr", "rsc"} : StartRender(r, kind)
    \/ \E q \in BagToSet(inflight), outcome \in Outcomes : FetchSettle(q, outcome)
    \/ \E r \in Renders : CompleteRender(r)
    \/ \E r \in Renders : CloseRender(r)
    \/ Tick
    \/ \E q \in RevalidateRequests :
            Revalidate(q.secretOk, q.type, q.id, q.path, q.throws)

Spec == Init /\ [][Next]_vars

\* Every request a page can put in flight.
AllRequests ==
    UNION {{Request(Page(kind)[i].url, Page(kind)[i].opts, r, i, PathOf(kind)) :
              i \in 1..Len(Page(kind)), r \in Renders \cup {0}} : kind \in {"ssr", "rsc"}}

\* Every fetch settles (it succeeds or fails), and the event loop runs a
\* render whose boundaries are all resolved to the end of its stream.
FairSpec ==
    /\ Spec
    /\ \A q \in AllRequests : WF_vars(\E outcome \in Outcomes : FetchSettle(q, outcome))
    /\ \A r \in Renders : WF_vars(CompleteRender(r))

\* -------------------------------------------------- GET /api/products
\* String.prototype.toLowerCase, on the category names in use.
toLowerCase(str) ==
    CASE str \in {"Electronics", "ELECTRONICS", "electronics"} -> "electronics"
      [] str \in {"Accessories", "accessories"} -> "accessories"
      [] str \in {"Gaming", "GAMING", "gaming"} -> "gaming"
      [] str \in {"ALL", "All", "all"} -> "all"
      [] OTHER -> str

\* Array.prototype.slice(from, to) for 0 <= from <= to, on a sequence.
\* A slice that took its end as inclusive would return one product more.
sliceInclusive(seq, from, to) ==
    LET hi == IF to + 1 < Len(seq) THEN to + 1 ELSE Len(seq)
    IN  IF hi <= from THEN << >>
        ELSE [k \in 1..(hi - from) |-> seq[from + k]]

slice(seq, from, to) ==
    LET hi == IF to < Len(seq) THEN to ELSE Len(seq)
    IN  IF hi <= from THEN << >>
        ELSE [k \in 1..(hi - from) |-> seq[from + k]]

\* The category filter: a category that is given and is not 'all' keeps the
\* products of that category, compared in lower case.
\* The documented handler compares p.category === category, case and all.
filteredProductsCaseSensitive(category) ==
    IF ~Falsy(category, "") /\ category.val # "all"
    THEN LET Keep(p) == p.category = category.val
         IN  SelectSeq(mockProducts, Keep)
    ELSE mockProducts

filteredProducts(category) ==
    IF ~Falsy(category, "") /\ category.val # "all"
    THEN LET Keep(p) == toLowerCase(p.category) = toLowerCase(category.val)
         IN  SelectSeq(mockProducts, Keep)
    ELSE mockProducts

\* The handler.  A query parameter is a Field; limit and offset are given
\* as non-negative integers or not at all.  The 300 ms delay and the
\* Cache-Control header are left out.
GETHasMoreInclusive(query) ==
    LET filtered == filteredProducts(query.category)
        limit == Coalesce(query.limit, DefaultLimit)
        offset == Coalesce(query.offset, DefaultOffset)
    IN  [status |-> 200,
         products |-> slice(filtered, offset, offset + limit),
         total |-> Len(filtered),
         limit |-> limit,
         offset |-> offset,
         hasMore |-> offset + limit <= Len(filtered)]

GET(query) ==
    LET filtered == filteredProducts(query.category)
        limit == Coalesce(query.limit, DefaultLimit)
        offset == Coalesce(query.offset, DefaultOffset)
    IN  [status |-> 200,
         products |-> slice(filtered, offset, offset + limit),
         total |-> Len(filtered),
         limit |-> limit,
         offset |-> offset,
         hasMore |-> offset + limit < Len(filtered)]

\* The category parameters the route is tried with.
CategoryParams ==
    {Field(FALSE, "")} \cup
    {Field(TRUE, c) : c \in {"", "all", "ALL", "Electronics", "accessories",
                              "GAMING", "Toys"}}

Queries ==
    [category : CategoryParams,
     limit : {Field(FALSE, 0)} \cup {Field(TRUE, n) : n \in 0..MaxLimit},
     offset : {Field(FALSE, 0)} \cup {Field(TRUE, n) : n \in 0..MaxOffset}]

\* A client sends a query.
Get(query) ==
    /\ client' = [first |-> query, query |-> query, answer |-> GET(query),
                  pages |-> GET(query).products, requests |-> 1]
    /\ UNCHANGED << now, cache, renders, inflight, response, evicted, overtaken >>
    /\ UNCHANGED << mockProducts, page, csr >>

\* The client asks for the next page: the same query with offset increased
\* by limit, for as long as the answer says hasMore.
NextPage ==
    /\ client # NoClient
    /\ client.answer.hasMore
    /\ client.requests < MaxRequests
    /\ LET next == [client.query EXCEPT
                       !.offset = Field(TRUE, client.answer.offset + client.answer.limit)]
       IN  client' = [client EXCEPT !.query = next,
                                    !.answer = GET(next),
                                    !.pages = @ \o GET(next).products,
                                    !.requests = @ + 1]
    /\ UNCHANGED << now, cache, renders, inflight, response, evicted, overtaken >>
    /\ UNCHANGED << mockProducts, page, csr >>

\* The products route and its clients.
ProductsNext ==
    \/ \E query \in Queries : Get(query)
    \/ NextPage
    \/ \E request \in PostRequests : PostProducts(request)

ProductsSpec == Init /\ [][ProductsNext]_vars

\* The app with its products API route: the pages, the cache, the
\* revalidation route and POST /api/products.
ApiNext ==
    \/ Next
    \/ \E request \in PostRequests : PostProducts(request)

ApiSpec == Init /\ [][ApiNext]_vars

\* ------------------------------------------------------------- claims
Active(r) == renders[r] # IdleRender

\* The requests in flight that satisfy a test, counted with multiplicity.
InFlight(Test(_)) ==
    BagCardinality([q \in {x \in BagToSet(inflight) : Test(x)} |-> inflight[q]])

ContentEvents(stream) ==
    LET IsContent(e) == e.kind # "complete" IN SelectSeq(stream, IsContent)

EventsFor(stream, i) ==
    LET IsFor(e) == e.frag = i IN SelectSeq(stream, IsFor)

AwaitedNoStore(u) ==
    LET Test(q) == q.url = u /\ q.r # 0 /\ q.opts.cache = "no-store" IN InFlight(Test)

\* The renders whose no-store fetch of the url has not settled.
AwaitingNoStore(u) ==
    {r \in Renders : Active(r) /\ \E i \in 1..Len(renders[r].slots) :
        /\ Page(renders[r].kind)[i].url = u
        /\ Page(renders[r].kind)[i].opts.cache = "no-store"
        /\ ~Resolved(renders[r].slots[i])}

RscOpts(u) ==
    LET i == CHOOSE j \in 1..Len(RSCOptimalPage) : RSCOptimalPage[j].url = u
    IN  RSCOptimalPage[i].opts

Tagged(c, tag) == {u \in Urls : c[u] # NoEntry /\ tag \in c[u].tags}

\* The step in which POST /api/revalidate answered a tag revalidation.
TagRevalidated(tag) ==
    /\ response' = [status |-> 200, revalidated |-> TRUE, tag |-> tag]
    /\ << now, renders, inflight >>' = << now, renders, inflight >>
    /\ << cache, response, evicted >>' # << cache, response, evicted >>

Started(r) == renders[r] = IdleRender /\ renders'[r] # IdleRender

Failed(r, i) ==
    /\ Active(r) /\ renders'[r] # IdleRender
    /\ i \in 1..Len(renders[r].slots)
    /\ ~Resolved(renders[r].slots[i])
    /\ renders'[r].slots[i].view = "error"

Mine(r, i, q) == q.r = r /\ q.i = i

Background(kind, i) ==
    Request(Page(kind)[i].url, Page(kind)[i].opts, 0, i, PathOf(kind))

NoStoreNeverCached ==
    /\ [](\A r \in Renders : (Active(r) /\ renders[r].kind = "ssr") =>
             /\ renders[r].obs = << "NoCache" >>
             /\ renders[r].slots[1].src # "cache"
             /\ LET Own(q) == Mine(r, 1, q) /\ q.opts.cache = "no-store"
                 IN  ~Resolved(renders[r].slots[1]) => InFlight(Own) = 1)
    /\ [](\A u \in Urls : cache[u] # NoEntry =>
             /\ cache[u].path # PathOf("ssr")
             /\ cache[u].tags = RscOpts(u).tags)
    /\ [][\A q \in BagToSet(inflight) :
             (q.opts.cache = "no-store" /\ CopiesIn(q, inflight') < CopiesIn(q, inflight))
                => cache' = cache]_vars

\* The SSR page shows products it fetched while the cache held a fresh
\* entry for the same url.
NoStoreWitness ==
    \E r \in Renders :
        /\ Active(r)
        /\ renders[r].kind = "ssr"
        /\ renders[r].slots[1] = ContentSlot(1, "network")
        /\ cacheGet(ProductsUrl, RscProductsOptions, now) = "Fresh"

NoAutomaticRetry ==
    /\ [](\A r \in Renders :
             /\ ~Active(r) => \A q \in BagToSet(inflight) : q.r # r
             /\ Active(r) => \A i \in 1..Len(renders[r].slots) :
                    LET Own(q) == Mine(r, i, q)
                    IN  /\ InFlight(Own) <= 1
                        /\ Resolved(renders[r].slots[i]) => InFlight(Own) = 0)
    /\ [][\A r \in Renders : \A i \in 1..Len(RSCOptimalPage) : Failed(r, i) =>
             /\ \A q \in BagToSet(inflight') : ~Mine(r, i, q)
             /\ BagCardinality(inflight') = BagCardinality(inflight) - 1]_vars
    /\ [][BagCardinality(inflight') > BagCardinality(inflight) =>
             \E r \in Renders : Started(r)]_vars

\* The SSR page shows its failure notice and nothing is in flight: the
\* failed fetch was not issued again.
FailedNoRetryWitness ==
    \E r \in Renders :
        /\ Active(r)
        /\ renders[r].kind = "ssr"
        /\ renders[r].slots[1] = ErrorSlot(1)
        /\ inflight = EmptyBag

MutationInvalidatesProducts ==
    [][\A request \in PostRequests :
         (PostProducts(request) /\ response'.status = 201) =>
             /\ Tagged(cache', "products") = {}
             /\ cacheGet(ProductsUrl, RscProductsOptions, now)' = "Miss"]_vars

\* C16: POST /api/products answers 400 with an error when the body does
\* not parse or lacks name or price, and 201 with the new product whenever
\* the body carries both a name and a price.
PostValidatesBody ==
    [][\A request \in PostRequests : PostProducts(request) =>
         LET lacks == \/ request.json # "object"
                      \/ ~request.body.name.has
                      \/ ~request.body.price.has
         IN  /\ lacks => /\ response'.status = 400
                          /\ "error" \in DOMAIN response'
             /\ ~lacks => /\ response'.status = 201
                           /\ response'.product.name = request.body.name.val
                           /\ response'.product.price = request.body.price.val]_vars

\* C17: POST /api/products without an authorization header is answered
\* 401, whatever its body.
PostRequiresAuthorization ==
    [][\A request \in PostRequests :
         (PostProducts(request) /\ ~request.authorization) =>
             response'.status = 401]_vars

FallbackUntilResolved ==
    /\ [](\A r \in Renders : (Active(r) /\ renders[r].kind = "rsc") =>
             \A i \in 1..Len(renders[r].slots) :
                 LET Own(q) == Mine(r, i, q)
                 IN  /\ renders[r].slots[i].view \in {"fallback", "content", "error"}
                     /\ InFlight(Own) = 1 <=> renders[r].slots[i] = PendingSlot("rsc", i)
                     /\ InFlight(Own) = 0 <=> Resolved(renders[r].slots[i]))
    /\ [][\A r \in Renders : (Active(r) /\ renders'[r] # IdleRender) =>
             \A i \in 1..Len(renders[r].slots) :
                 /\ Resolved(renders[r].slots[i]) =>
                       renders'[r].slots[i] = renders[r].slots[i]
                 /\ renders'[r].slots[i] # renders[r].slots[i] =>
                       /\ renders[r].slots[i] = PendingSlot(renders[r].kind, i)
                       /\ renders'[r].slots[i] \in
                             {ContentSlot(i, "network"), ErrorSlot(i)}]_vars

\* An RSC render shows the fetched product list next to the fallback of the
\* recommendations, which are still on their way.
FallbackBesideContentWitness ==
    \E r \in Renders :
        /\ Active(r)
        /\ renders[r].kind = "rsc"
        /\ renders[r].slots[1] = ContentSlot(1, "network")
        /\ renders[r].slots[2] = PendingSlot("rsc", 2)
        /\ renders[r].stream = << [frag |-> 1, kind |-> "ready"] >>

\* ------------------------------------------- the pages' getProducts
\* GET /api/products with no parameter.
NoQuery ==
    [category |-> Field(FALSE, ""), limit |-> Field(FALSE, 0), offset |-> Field(FALSE, 0)]

\* What data.products can be when the response is ok: missing, empty, part
\* of the catalogue, or what the route of this repository answers.
ProductsFields ==
    {Field(FALSE, << >>), Field(TRUE, << >>),
     Field(TRUE, slice(mockProducts, 0, 2)), Field(TRUE, GET(NoQuery).products)}

\* How the fetch of /api/products ends: an ok response with a JSON body, an
\* ok response whose body is not JSON (res.json() rejects), a response that
\* is not ok, or a rejected fetch.
PageOutcomes ==
    {[kind |-> "ok", products |-> f] : f \in ProductsFields}
        \cup {[kind |-> k, products |-> Field(FALSE, << >>)] : k \in {"badjson", "notok", "reject"}}

\* The try block of getProducts: it throws unless the response is ok and
\* parses; data.products || [].
tryGetProducts(outcome) ==
    IF outcome.kind = "ok"
    THEN [threw |-> FALSE, value |-> Coalesce(outcome.products, << >>)]
    ELSE [threw |-> TRUE, value |-> << >>]

\* getProducts without its catch lets the failure reach the page.
getProductsUncaught(outcome) == tryGetProducts(outcome)

\* getProducts of the SSR page and of the RSC page: the catch returns [].
getProducts(outcome) ==
    IF tryGetProducts(outcome).threw
    THEN [threw |-> FALSE, value |-> << >>]
    ELSE tryGetProducts(outcome)

\* What the page shows for the result of getProducts: the notice box when
\* products.length === 0, the grid otherwise; a throw would leave the
\* component to the error page.
PageView(result) ==
    IF result.threw THEN "error"
    ELSE IF Len(result.value) = 0 THEN "notice" ELSE "grid"

PageKinds == {"ssr", "rsc"}

\* A render of SSRStandardPage or of ProductList of the RSC page.
LoadPage(kind, outcome) ==
    /\ page' = [kind |-> kind, outcome |-> outcome,
                threw |-> getProducts(outcome).threw,
                products |-> getProducts(outcome).value,
                view |-> PageView(getProducts(outcome))]
    /\ UNCHANGED << now, cache, renders, inflight, response, evicted, overtaken >>
    /\ UNCHANGED << mockProducts, client, csr >>

\* ------------------------------------------------------ the CSR page
\* err.message of the three failures; none is empty.
message(outcome) ==
    CASE outcome.kind = "notok" -> "Failed to fetch"
      [] outcome.kind = "reject" -> "Failed to fetch"
      [] outcome.kind = "badjson" -> "Unexpected token"
      [] OTHER -> ""

\* CSRAntiPage mounts: products [], loading true, error null, and the
\* effect fetches /api/products; under reactStrictMode the development build
\* runs the effect twice, so two fetches are on their way.
Mount(strict) ==
    /\ ~csr.mounted
    /\ csr.instance < MaxMounts
    /\ csr' = [mounted |-> TRUE, instance |-> csr.instance + 1,
               products |-> << >>, loading |-> TRUE, error |-> Field(FALSE, ""),
               pending |-> IF strict THEN 2 ELSE 1, settled |-> 0]
    /\ UNCHANGED << now, cache, renders, inflight, response, evicted, overtaken >>
    /\ UNCHANGED << mockProducts, client, page >>

\* A handler that forgot setLoading(false) in its catch.
CsrSettleKeepsLoading(outcome) ==
    /\ csr.mounted
    /\ csr.pending > 0
    /\ csr' = IF outcome.kind = "ok"
              THEN [csr EXCEPT !.products = Coalesce(outcome.products, << >>),
                               !.loading = FALSE,
                               !.pending = @ - 1, !.settled = @ + 1]
              ELSE [csr EXCEPT !.error = Field(TRUE, message(outcome)),
                               !.pending = @ - 1, !.settled = @ + 1]
    /\ UNCHANGED << now, cache, renders, inflight, response, evicted, overtaken >>
    /\ UNCHANGED << mockProducts, client, page >>

\* A fetch of the mounted page settles.  The two setState calls of a handler
\* are batched into one render.
CsrSettle(outcome) ==
    /\ csr.mounted
    /\ csr.pending > 0
    /\ csr' = IF outcome.kind = "ok"
              THEN [csr EXCEPT !.products = Coalesce(outcome.products, << >>),
                               !.loading = FALSE,
                               !.pending = @ - 1, !.settled = @ + 1]
              ELSE [csr EXCEPT !.error = Field(TRUE, message(outcome)),
                               !.loading = FALSE,
                               !.pending = @ - 1, !.settled = @ + 1]
    /\ UNCHANGED << now, cache, renders, inflight, response, evicted, overtaken >>
    /\ UNCHANGED << mockProducts, client, page >>

\* The user leaves the page: the component and its state are gone, and a
\* fetch still on its way settles into nothing.
Unmount ==
    /\ csr.mounted
    /\ csr' = [mounted |-> FALSE, instance |-> csr.instance]
    /\ UNCHANGED << now, cache, renders, inflight, response, evicted, overtaken >>
    /\ UNCHANGED << mockProducts, client, page >>

\* The grid shown whenever there are products, error or not.
ViewsGridDespiteError(st) ==
    {v \in {"spinner", "error", "empty", "grid"} :
        \/ v = "spinner" /\ st.loading
        \/ v = "error" /\ ~Falsy(st.error, "")
        \/ v = "empty" /\ ~st.loading /\ Falsy(st.error, "") /\ Len(st.products) = 0
        \/ v = "grid" /\ ~st.loading /\ Len(st.products) > 0}

\* The views CSRAntiPage renders for its state.
Views(st) ==
    {v \in {"spinner", "error", "empty", "grid"} :
        \/ v = "spinner" /\ st.loading
        \/ v = "error" /\ ~Falsy(st.error, "")
        \/ v = "empty" /\ ~st.loading /\ Falsy(st.error, "") /\ Len(st.products) = 0
        \/ v = "grid" /\ ~st.loading /\ Falsy(st.error, "") /\ Len(st.products) > 0}

PagesNext ==
    \/ \E kind \in PageKinds, outcome \in PageOutcomes : LoadPage(kind, outcome)
    \/ \E strict \in BOOLEAN : Mount(strict)
    \/ \E outcome \in PageOutcomes : CsrSettle(outcome)
    \/ Unmount

PagesSpec == Init /\ [][PagesNext]_vars

\* The parameters of a query as the handler reads them.
Asked(query) ==
    [limit |-> IF query.limit.has THEN query.limit.val ELSE 20,
     offset |-> IF query.offset.has THEN query.offset.val ELSE 0]

\* C23: the answer of GET /api/products carries exactly the products at
\* positions offset to offset+limit-1 of the filtered list, in catalogue
\* order and at most limit of them; total is the length of the filtered
\* list; hasMore says whether a product lies at position offset+limit or
\* beyond.
PageIsSliceOfFiltered ==
    client # NoClient =>
        LET a == client.answer
            F == filteredProducts(client.query.category)
            limit == Asked(client.query).limit
            offset == Asked(client.query).offset
            inPage == {k \in 0..(Len(F) - 1) : offset <= k /\ k <= offset + limit - 1}
        IN  /\ a.status = 200
            /\ Len(a.products) = Cardinality(inPage)
            /\ Len(a.products) <= limit
            /\ \A j \in 1..Len(a.products) : a.products[j] = F[offset + j]
            /\ a.total = Len(F)
            /\ a.hasMore <=> \E k \in 0..(Len(F) - 1) : k >= offset + limit

\* The last page of the five Electronics, two at a time: one product, no
\* more to come.
LastPageWitness ==
    /\ client # NoClient
    /\ client.query.category = Field(TRUE, "Electronics")
    /\ client.query.limit = Field(TRUE, 2)
    /\ client.query.offset = Field(TRUE, 4)
    /\ client.answer.products = << [id |-> "8", category |-> "Electronics"] >>
    /\ client.answer.total = 5
    /\ ~client.answer.hasMore

\* The client started at offset 0 with a limit of at least 1.
FromStart(c) ==
    /\ c # NoClient
    /\ Asked(c.first).offset = 0
    /\ Asked(c.first).limit >= 1

\* C24: a client that starts at offset 0 with a limit of at least 1 and
\* goes on while hasMore is true has, after n requests, the first n*limit
\* products of the filtered list, none repeated or skipped; hasMore is true
\* exactly while that is less than the whole list, so the client stops after
\* at most one request per product, with the whole filtered list in hand.
PagingCoversFilteredList ==
    FromStart(client) =>
        LET F == filteredProducts(client.first.category)
            limit == Asked(client.first).limit
            got == client.requests * limit
        IN  /\ client.pages = [k \in 1..(IF got < Len(F) THEN got ELSE Len(F)) |-> F[k]]
            /\ client.answer.hasMore <=> got < Len(F)
            /\ (client.requests - 1) * limit < Len(F) \/ client.requests = 1
            /\ client.requests < MaxRequests
            /\ ~client.answer.hasMore => client.pages = F

\* Three requests of three products each have gathered the whole catalogue.
PagingDoneWitness ==
    /\ FromStart(client)
    /\ client.first.category = Field(FALSE, "")
    /\ client.first.limit = Field(TRUE, 3)
    /\ client.requests = 3
    /\ ~client.answer.hasMore
    /\ client.pages = mockProducts

\* The products whose category equals the name, letter case apart.
InCategory(name) ==
    LET Same(p) == toLowerCase(p.category) = toLowerCase(name)
    IN  SelectSeq(mockProducts, Same)

\* C25 as claimed: with a category parameter the list before pagination
\* holds exactly the products of that category, letter case apart; with no
\* category parameter, or with 'all', it is the whole catalogue.
FilterByCategoryParameter ==
    client # NoClient =>
        LET category == client.query.category
            whole == ~category.has \/ category.val = "all"
            expected == IF whole THEN mockProducts ELSE InCategory(category.val)
        IN  /\ filteredProducts(category) = expected
            /\ client.answer.total = Len(expected)

\* C25 as amended: with a category parameter that is not empty and not
\* 'all' the list before pagination holds exactly the products of that
\* category, letter case apart; with no category parameter, with an empty one
\* or with 'all', it is the whole catalogue.
FilterByCategory ==
    client # NoClient =>
        LET category == client.query.category
            whole == ~category.has \/ category.val = "" \/ category.val = "all"
            expected == IF whole THEN mockProducts ELSE InCategory(category.val)
        IN  /\ filteredProducts(category) = expected
            /\ client.answer.total = Len(expected)
            /\ \A j \in 1..Len(client.answer.products) :
                  \E k \in 1..Len(expected) : client.answer.products[j] = expected[k]

\* ?category=accessories was answered with the two Accessories.
FilterIgnoresCaseWitness ==
    /\ client # NoClient
    /\ client.query.category = Field(TRUE, "accessories")
    /\ client.answer.total = 2
    /\ client.answer.products = << [id |-> "5", category |-> "Accessories"],
                                   [id |-> "6", category |-> "Accessories"] >>

\* The unpaged listings, one per category parameter: each holds its whole
\* filtered list, of which every page is a slice.
Listings == {query \in Queries : ~query.limit.has /\ ~query.offset.has}

\* C26: no POST /api/products, accepted or rejected, changes the
\* catalogue: every listing is answered after the request as it was before,
\* the catalogue is the one the module starts with, and an answer a client
\* holds is still what the route returns.
PostLeavesCatalogue ==
    /\ [][\A request \in PostRequests : PostProducts(request) =>
             /\ mockProducts' = mockProducts
             /\ \A query \in Listings : GET(query)' = GET(query)]_vars
    /\ [](mockProducts = InitialProducts)
    /\ [](client # NoClient => client.answer = GET(client.query))

\* A product was accepted and the whole catalogue still lists eight.
PostAcceptedWitness ==
    /\ response.status = 201
    /\ client # NoClient
    /\ client.query.category = Field(FALSE, "")
    /\ client.answer.total = 8
    /\ client.answer = GET(client.query)

\* The fetch of the page failed: rejected, not ok, or not JSON.
FetchFailed(outcome) == outcome.kind # "ok"

\* An ok response with an empty catalogue.
EmptyCatalogue == [kind |-> "ok", products |-> Field(TRUE, << >>)]

ExactlyOneView ==
    csr.mounted => Cardinality(Views(csr)) = 1

\* Of the two fetches of a development mount one brought products and the
\* other failed: the error box alone is shown.
ErrorOverProductsWitness ==
    /\ csr.mounted
    /\ csr.settled = 2
    /\ Len(csr.products) > 0
    /\ csr.error.has
    /\ Views(csr) = {"error"}

\* C29: the CSR page starts with loading true and stays so until a fetch
\* settles; the step that settles a fetch, by success or by failure, leaves
\* loading false; and loading of a mounted page never goes from false to
\* true.
LoadingFallsOnce ==
    /\ [](csr.mounted => (csr.loading <=> csr.settled = 0))
    /\ [][\A outcome \in PageOutcomes : CsrSettle(outcome) => ~csr'.loading]_vars
    /\ [][(csr.mounted /\ csr'.mounted /\ ~csr.loading) => ~csr'.loading]_vars
    /\ [][(~csr.mounted /\ csr'.mounted) => csr'.loading]_vars

\* A second fetch failed after loading had already fallen: loading is
\* still false.
LoadingStaysFalseWitness ==
    /\ csr.mounted
    /\ csr.settled = 2
    /\ csr.error.has
    /\ ~csr.loading

====
